---- MODULE Spec2Model ----
(***************************************************************************)
(* Model of the login flow of pkg/login/flow.go: Flow.Start, selectProvider *)
(* and the attempt loop of triggerMethod, with the collaborators (flag      *)
(* resolution, provider catalog, prompt, opener, signer, login endpoint)    *)
(* as nondeterministic inputs.                                              *)
(***************************************************************************)
EXTENDS Naturals, Sequences, FiniteSets

VARIABLES
    pc,             \* position of the control flow inside Start / triggerMethod
    runs,           \* number of Start calls made on this Flow value
    flags,          \* f.flags
    interactive,    \* f.interactive
    providers,      \* Start's local `providers` (the catalog)
    provider,       \* the provider returned by selectProvider
    attempt,        \* triggerMethod's loop counter
    loginEndpoint,  \* triggerMethod's local
    credentials,    \* triggerMethod's local
    result,         \* what Start returned: [token, err]
    log             \* the collaborator calls of the current Start, in order

vars == <<pc, runs, flags, interactive, providers, provider, attempt,
          loginEndpoint, credentials, result, log>>

-----------------------------------------------------------------------------
(* Bounds of the model *)

\* Start calls made on one Flow value.
MaxRuns == 2

\* Cap of the loop counter, so that a loop that does not stop stays finite.
AttemptCap == 5

-----------------------------------------------------------------------------
(* Values *)

ProviderIDs == {"p1", "p2", "p3"}

\* providers.Slice() iterates the catalog in the order of the IDs.
IDRank == [id \in ProviderIDs |-> CASE id = "p1" -> 1 [] id = "p2" -> 2 [] OTHER -> 3]

ClientMethods == {"methodCredential", "methodUserCredential",
                  "methodServiceCredential", "methodBrowserToken", "methodOther"}

\* A URL is the sequence of its parts; a root-relative one begins with "/".
RelativeURL == <<"/", "login">>
AbsoluteURL == <<"https://idp", "/", "login">>
BaseURL == "https://cluster"

\* The provider configurations a catalog entry is drawn from.
ProviderKinds ==
    {[ClientMethod |-> m, StartFlowURL |-> AbsoluteURL] : m \in ClientMethods}
    \cup {[ClientMethod |-> "methodBrowserToken", StartFlowURL |-> RelativeURL]}

MkProvider(id, k) ==
    [ID |-> id, ClientMethod |-> k.ClientMethod, StartFlowURL |-> k.StartFlowURL]

NoProvider == [ID |-> "", ClientMethod |-> "", StartFlowURL |-> <<>>]

\* Catalogs: maps from a set of IDs to providers carrying that ID.
Catalogs ==
    UNION {{[id \in ids |-> MkProvider(id, ks[id])] : ks \in [ids -> ProviderKinds]}
           : ids \in SUBSET ProviderIDs}

NoProviders == [id \in {} |-> NoProvider]

\* Resolved flags. `supports` is the set of provider IDs the flags are
\* compatible with.
FlagValues ==
    [providerID : {""} \cup ProviderIDs \cup {"missing"},
     username   : {"", "alice"},
     password   : {"", "secret"},
     supports   : SUBSET ProviderIDs]

NilFlags == [providerID |-> "", username |-> "", password |-> "", supports |-> {}]

NoCredentials == [UID |-> "", Password |-> "", Token |-> <<>>]

\* Errors.
Err(kind, n, id) == [kind |-> kind, n |-> n, id |-> id]
NoErr == Err("nil", 0, "")
ResolveErr == Err("flags", 0, "")
ProvidersErr == Err("providers", 0, "")
UnknownProviderErr(id) == Err("unknown login provider ID", 0, id)
NoProviderErr == Err("couldn't determine a login provider", 0, "")
SelectErr == Err("select", 0, "")
SigningErr == Err("signing", 0, "")
NewRequestErr == Err("new request", 0, "")
OpenErr == Err("open", 0, "")
LoginErr(n) == Err("login", n, "")

Return(token, err) == [token |-> token, err |-> err]
NoResult == Return(<<>>, NoErr)

\* Log entries.
Ev(op, arg) == [op |-> op, arg |-> arg]

-----------------------------------------------------------------------------
Init ==
    /\ pc = "idle"
    /\ runs = 1
    /\ flags = NilFlags
    /\ interactive = FALSE
    /\ providers = NoProviders
    /\ provider = NoProvider
    /\ attempt = 0
    /\ loginEndpoint = <<>>
    /\ credentials = NoCredentials
    /\ result = NoResult
    /\ log = <<>>

\* The state threaded through a call; `ret` and `err` are the values returned
\* by the call made last.
Ctx(i, l, cr, ep) ==
    [interactive |-> i, log |-> l, credentials |-> cr, loginEndpoint |-> ep,
     ret |-> <<>>, err |-> NoErr]

\* Start, up to `f.flags = flags`.
StartResolve ==
    /\ pc = "idle"
    /\ \/ /\ pc' = "done"
          /\ log' = Append(log, Ev("Resolve", FALSE))
          /\ result' = Return(<<>>, ResolveErr)
          /\ UNCHANGED flags
       \/ /\ \E fl \in FlagValues : flags' = fl
          /\ log' = Append(log, Ev("Resolve", TRUE))
          /\ pc' = "providers"
          /\ UNCHANGED result
    /\ UNCHANGED <<runs, interactive, providers, provider, attempt,
                   loginEndpoint, credentials>>

\* Mutant of FetchProviders: a failed fetch is taken for an empty catalog.
FetchProviders_IgnoresError ==
    /\ pc = "providers"
    /\ \/ /\ pc' = "select"
          /\ log' = Append(log, Ev("Providers", FALSE))
          /\ UNCHANGED <<providers, result>>
       \/ /\ \E ps \in Catalogs : providers' = ps
          /\ log' = Append(log, Ev("Providers", TRUE))
          /\ pc' = "select"
          /\ UNCHANGED result
    /\ UNCHANGED <<runs, flags, interactive, provider, attempt, loginEndpoint,
                   credentials>>

\* Start: f.client.Providers(), the catalog fetch.
FetchProviders ==
    /\ pc = "providers"
    /\ \/ /\ pc' = "done"
          /\ log' = Append(log, Ev("Providers", FALSE))
          /\ result' = Return(<<>>, ProvidersErr)
          /\ UNCHANGED providers
       \/ /\ \E ps \in Catalogs : providers' = ps
          /\ log' = Append(log, Ev("Providers", TRUE))
          /\ pc' = "select"
          /\ UNCHANGED result
    /\ UNCHANGED <<runs, flags, interactive, provider, attempt, loginEndpoint,
                   credentials>>

-----------------------------------------------------------------------------
(* selectProvider *)

\* flags.Supports(provider)
Supports(fl, p) == p.ID \in fl.supports

\* providers.Slice(): the catalog as a sequence, in the order of the IDs.
Slice(ps) ==
    [i \in 1..Cardinality(DOMAIN ps) |->
        ps[CHOOSE id \in DOMAIN ps :
              Cardinality({j \in DOMAIN ps : IDRank[j] < IDRank[id]}) = i - 1]]

\* Mutant of providerCandidates: no provider is filtered out.
providerCandidates_Unfiltered(fl, ps) == Slice(ps)

\* The candidates for implicit or manual selection.
providerCandidates(fl, ps) ==
    SelectSeq(Slice(ps), LAMBDA p : Supports(fl, p))

\* The log after the loop over providers.Slice(): one Info entry for each
\* provider excluded, in the order of the iteration.
ExcludingLog(l, fl, ps) ==
    LET excluded == SelectSeq(Slice(ps), LAMBDA p : ~Supports(fl, p))
    IN l \o [j \in 1..Len(excluded) |-> Ev("Info", excluded[j].ID)]

IDs(ps) == [j \in 1..Len(ps) |-> ps[j].ID]

\* What prompt.Select may answer: an index (from 0) or an error.
SelectAnswers == [i : 0..(Cardinality(ProviderIDs) - 1), ok : BOOLEAN]

\* Mutant of selectProvider: the selection prompt lists the whole catalog.
selectProvider_PromptsWholeCatalog(c, fl, ps, sel) ==
    IF fl.providerID # ""
    THEN IF fl.providerID \in DOMAIN ps
         THEN [c EXCEPT !.ret = ps[fl.providerID], !.err = NoErr]
         ELSE [c EXCEPT !.ret = NoProvider,
                        !.err = UnknownProviderErr(fl.providerID)]
    ELSE LET cands == providerCandidates(fl, ps)
             c1 == [c EXCEPT !.log = ExcludingLog(@, fl, ps)]
         IN CASE Len(cands) = 0 ->
                   [c1 EXCEPT !.ret = NoProvider, !.err = NoProviderErr]
              [] Len(cands) = 1 ->
                   [c1 EXCEPT !.ret = cands[1], !.err = NoErr]
              [] OTHER ->
                   LET c2 == [c1 EXCEPT !.log = Append(@, Ev("Select", IDs(Slice(ps))))]
                   IN IF sel.ok
                      THEN [c2 EXCEPT !.log = Append(@, Ev("Selected", sel.i)),
                                      !.ret = Slice(ps)[sel.i + 1], !.err = NoErr]
                      ELSE [c2 EXCEPT !.ret = NoProvider, !.err = SelectErr]

\* Mutants of selectProvider: explicit selection applies the filter; implicit
\* selection returns the first provider of the catalog.
selectProvider_ExplicitFiltered(c, fl, ps, sel) ==
    IF fl.providerID # ""
    THEN IF fl.providerID \in DOMAIN ps /\ Supports(fl, ps[fl.providerID])
         THEN [c EXCEPT !.ret = ps[fl.providerID], !.err = NoErr]
         ELSE [c EXCEPT !.ret = NoProvider,
                        !.err = UnknownProviderErr(fl.providerID)]
    ELSE LET cands == providerCandidates(fl, ps)
             c1 == [c EXCEPT !.log = ExcludingLog(@, fl, ps)]
         IN CASE Len(cands) = 0 ->
                   [c1 EXCEPT !.ret = NoProvider, !.err = NoProviderErr]
              [] Len(cands) = 1 ->
                   [c1 EXCEPT !.ret = cands[1], !.err = NoErr]
              [] OTHER ->
                   LET c2 == [c1 EXCEPT !.log = Append(@, Ev("Select", IDs(cands)))]
                   IN IF sel.ok
                      THEN [c2 EXCEPT !.log = Append(@, Ev("Selected", sel.i)),
                                      !.ret = cands[sel.i + 1], !.err = NoErr]
                      ELSE [c2 EXCEPT !.ret = NoProvider, !.err = SelectErr]

selectProvider_ImplicitFirstOfCatalog(c, fl, ps, sel) ==
    IF fl.providerID # ""
    THEN IF fl.providerID \in DOMAIN ps
         THEN [c EXCEPT !.ret = ps[fl.providerID], !.err = NoErr]
         ELSE [c EXCEPT !.ret = NoProvider,
                        !.err = UnknownProviderErr(fl.providerID)]
    ELSE LET cands == providerCandidates(fl, ps)
             c1 == [c EXCEPT !.log = ExcludingLog(@, fl, ps)]
         IN CASE Len(cands) = 0 ->
                   [c1 EXCEPT !.ret = NoProvider, !.err = NoProviderErr]
              [] Len(cands) = 1 ->
                   [c1 EXCEPT !.ret = Slice(ps)[1], !.err = NoErr]
              [] OTHER ->
                   LET c2 == [c1 EXCEPT !.log = Append(@, Ev("Select", IDs(cands)))]
                   IN IF sel.ok
                      THEN [c2 EXCEPT !.log = Append(@, Ev("Selected", sel.i)),
                                      !.ret = cands[sel.i + 1], !.err = NoErr]
                      ELSE [c2 EXCEPT !.ret = NoProvider, !.err = SelectErr]

\* Mutant of selectProvider: manual selection marks the flow interactive.
selectProvider_MarksInteractive(c, fl, ps, sel) ==
    IF fl.providerID # ""
    THEN IF fl.providerID \in DOMAIN ps
         THEN [c EXCEPT !.ret = ps[fl.providerID], !.err = NoErr]
         ELSE [c EXCEPT !.ret = NoProvider,
                        !.err = UnknownProviderErr(fl.providerID)]
    ELSE LET cands == providerCandidates(fl, ps)
             c1 == [c EXCEPT !.log = ExcludingLog(@, fl, ps)]
         IN CASE Len(cands) = 0 ->
                   [c1 EXCEPT !.ret = NoProvider, !.err = NoProviderErr]
              [] Len(cands) = 1 ->
                   [c1 EXCEPT !.ret = cands[1], !.err = NoErr]
              [] OTHER ->
                   LET c2 == [c1 EXCEPT !.log = Append(@, Ev("Select", IDs(cands))),
                                        !.interactive = TRUE]
                   IN IF sel.ok
                      THEN [c2 EXCEPT !.log = Append(@, Ev("Selected", sel.i)),
                                      !.ret = cands[sel.i + 1], !.err = NoErr]
                      ELSE [c2 EXCEPT !.ret = NoProvider, !.err = SelectErr]

\* f.selectProvider(providers), given the answer `sel` of the selection prompt
\* (used by manual selection only).
selectProvider(c, fl, ps, sel) ==
    IF fl.providerID # ""
    THEN IF fl.providerID \in DOMAIN ps
         THEN [c EXCEPT !.ret = ps[fl.providerID], !.err = NoErr]
         ELSE [c EXCEPT !.ret = NoProvider,
                        !.err = UnknownProviderErr(fl.providerID)]
    ELSE LET cands == providerCandidates(fl, ps)
             c1 == [c EXCEPT !.log = ExcludingLog(@, fl, ps)]
         IN CASE Len(cands) = 0 ->
                   [c1 EXCEPT !.ret = NoProvider, !.err = NoProviderErr]
              [] Len(cands) = 1 ->
                   [c1 EXCEPT !.ret = cands[1], !.err = NoErr]
              [] OTHER ->
                   LET c2 == [c1 EXCEPT !.log = Append(@, Ev("Select", IDs(cands)))]
                   IN IF sel.ok
                      THEN [c2 EXCEPT !.log = Append(@, Ev("Selected", sel.i)),
                                      !.ret = cands[sel.i + 1], !.err = NoErr]
                      ELSE [c2 EXCEPT !.ret = NoProvider, !.err = SelectErr]

\* Start: provider, err := f.selectProvider(providers)
SelectProvider ==
    /\ pc = "select"
    /\ \E sel \in SelectAnswers :
          LET n == Len(providerCandidates(flags, providers))
              c == selectProvider(Ctx(interactive, log, credentials, loginEndpoint),
                                  flags, providers, sel)
          IN /\ sel.i < n \/ n < 2
             /\ provider' = c.ret
             /\ log' = c.log
             /\ interactive' = c.interactive
             /\ IF c.err = NoErr
                THEN pc' = "selected" /\ UNCHANGED result
                ELSE pc' = "done" /\ result' = Return(<<>>, c.err)
    /\ UNCHANGED <<runs, flags, providers, attempt, loginEndpoint, credentials>>

\* Start: return f.triggerMethod(provider), up to the head of the loop.
\* `providers` is a local of Start that triggerMethod does not receive.
EnterTriggerMethod ==
    /\ pc = "selected"
    /\ pc' = "attempt"
    /\ attempt' = 1
    /\ loginEndpoint' = <<>>
    /\ credentials' = NoCredentials
    /\ providers' = NoProviders
    /\ UNCHANGED <<runs, flags, interactive, provider, result, log>>

-----------------------------------------------------------------------------
(* triggerMethod *)

\* What the collaborators answer during one attempt: the prompted values, the
\* outcome of signing, of building the request for a relative URL, of opening
\* the browser and of the login submission.
AttemptInputs ==
    [uid          : {"bob", "carol"},
     password     : {"hunter2"},
     token        : {<<"pasted">>},
     signOk       : BOOLEAN,
     newRequestOk : BOOLEAN,
     openOk       : BOOLEAN,
     loginOk      : BOOLEAN,
     acsToken     : {<<"acs1">>, <<"acs2">>}]

\* The number of attempts after which a failure is returned.
MaxAttempts == 3

\* The number of login submissions in a log.
Submissions(l) == Cardinality({i \in 1..Len(l) : l[i].op = "Login"})

\* f.uid()
uid(c, fl, in) ==
    IF fl.username # ""
    THEN [c EXCEPT !.ret = fl.username]
    ELSE [c EXCEPT !.interactive = TRUE,
                   !.log = Append(@, Ev("Input", [prompt |-> "Username: ", answer |-> in.uid])),
                   !.ret = in.uid]

\* Mutant of password: the prompt does not mark the flow interactive.
password_NotInteractive(c, fl, in) ==
    IF fl.password # ""
    THEN [c EXCEPT !.ret = fl.password]
    ELSE [c EXCEPT !.log = Append(@, Ev("Password", [prompt |-> "Password: ", answer |-> in.password])),
                   !.ret = in.password]

\* f.password()
password(c, fl, in) ==
    IF fl.password # ""
    THEN [c EXCEPT !.ret = fl.password]
    ELSE [c EXCEPT !.interactive = TRUE,
                   !.log = Append(@, Ev("Password", [prompt |-> "Password: ", answer |-> in.password])),
                   !.ret = in.password]

\* f.serviceToken(uid): the signed token for uid, or the signing error.
serviceToken(c, u, in) ==
    IF in.signOk
    THEN [c EXCEPT !.log = Append(@, Ev("Sign", [uid |-> u, ok |-> TRUE])),
                   !.ret = <<"jwt", u>>]
    ELSE [c EXCEPT !.log = Append(@, Ev("Sign", [uid |-> u, ok |-> FALSE])),
                   !.ret = <<>>,
                   !.err = SigningErr]

\* strings.HasPrefix(startFlowURL, "/")
HasPrefixSlash(url) == Len(url) > 0 /\ url[1] = "/"

\* Mutants of openBrowser: the fallback message is written only when the
\* opener failed; a failure of the opener is returned.
openBrowser_MessageOnlyOnFailure(c, startFlowURL, in) ==
    IF HasPrefixSlash(startFlowURL) /\ ~in.newRequestOk
    THEN [c EXCEPT !.err = NewRequestErr]
    ELSE LET url == IF HasPrefixSlash(startFlowURL)
                    THEN <<BaseURL>> \o startFlowURL
                    ELSE startFlowURL
             opened == Append(c.log, Ev("Open", url))
         IN IF in.openOk
            THEN [c EXCEPT !.log = opened, !.err = NoErr]
            ELSE [c EXCEPT !.log = Append(Append(opened, Ev("LogError", OpenErr)),
                                          Ev("Errout", url)),
                           !.err = NoErr]

openBrowser_ReturnsOpenError(c, startFlowURL, in) ==
    IF HasPrefixSlash(startFlowURL) /\ ~in.newRequestOk
    THEN [c EXCEPT !.err = NewRequestErr]
    ELSE LET url == IF HasPrefixSlash(startFlowURL)
                    THEN <<BaseURL>> \o startFlowURL
                    ELSE startFlowURL
             opened == Append(c.log, Ev("Open", url))
         IN IF in.openOk
            THEN [c EXCEPT !.log = Append(opened, Ev("Errout", url)), !.err = NoErr]
            ELSE [c EXCEPT !.log = Append(opened, Ev("LogError", OpenErr)),
                           !.err = OpenErr]

\* f.openBrowser(startFlowURL)
openBrowser(c, startFlowURL, in) ==
    IF HasPrefixSlash(startFlowURL) /\ ~in.newRequestOk
    THEN [c EXCEPT !.err = NewRequestErr]
    ELSE LET url == IF HasPrefixSlash(startFlowURL)
                    THEN <<BaseURL>> \o startFlowURL
                    ELSE startFlowURL
             opened == Append(c.log, Ev("Open", url))
             logged == IF in.openOk
                       THEN opened
                       ELSE Append(opened, Ev("LogError", OpenErr))
         IN [c EXCEPT !.log = Append(logged, Ev("Errout", url)), !.err = NoErr]

\* Mutant of Acquire: the password is obtained before the UID.
Acquire_PasswordBeforeUID(c, p, fl, att, in) ==
    CASE p.ClientMethod \in {"methodCredential", "methodUserCredential"} ->
            LET c1 == password([c EXCEPT !.loginEndpoint = p.StartFlowURL], fl, in)
                c2 == uid([c1 EXCEPT !.credentials.Password = c1.ret], fl, in)
            IN [c2 EXCEPT !.credentials.UID = c2.ret]
      [] p.ClientMethod = "methodServiceCredential" ->
            LET c1 == uid(c, fl, in)
                c2 == serviceToken([c1 EXCEPT !.credentials.UID = c1.ret], c1.ret, in)
            IN IF c2.err # NoErr
               THEN c2
               ELSE [c2 EXCEPT !.credentials.Token = c2.ret]
      [] p.ClientMethod = "methodBrowserToken" ->
            LET c1 == IF att = 1 THEN openBrowser(c, p.StartFlowURL, in) ELSE c
            IN IF c1.err # NoErr
               THEN c1
               ELSE [c1 EXCEPT !.interactive = TRUE,
                               !.log = Append(@, Ev("Input", [prompt |-> "Enter token from the browser: ",
                                                                 answer |-> in.token])),
                               !.credentials.Token = in.token]
      [] OTHER -> c

\* Mutant of Acquire: the service method posts to the start-flow URL.
Acquire_ServiceUsesStartFlowURL(c, p, fl, att, in) ==
    CASE p.ClientMethod \in {"methodCredential", "methodUserCredential"} ->
            LET c1 == uid([c EXCEPT !.loginEndpoint = p.StartFlowURL], fl, in)
                c2 == password([c1 EXCEPT !.credentials.UID = c1.ret], fl, in)
            IN [c2 EXCEPT !.credentials.Password = c2.ret]
      [] p.ClientMethod = "methodServiceCredential" ->
            LET c1 == uid([c EXCEPT !.loginEndpoint = p.StartFlowURL], fl, in)
                c2 == serviceToken([c1 EXCEPT !.credentials.UID = c1.ret], c1.ret, in)
            IN IF c2.err # NoErr
               THEN c2
               ELSE [c2 EXCEPT !.credentials.Token = c2.ret]
      [] p.ClientMethod = "methodBrowserToken" ->
            LET c1 == IF att = 1 THEN openBrowser(c, p.StartFlowURL, in) ELSE c
            IN IF c1.err # NoErr
               THEN c1
               ELSE [c1 EXCEPT !.interactive = TRUE,
                               !.log = Append(@, Ev("Input", [prompt |-> "Enter token from the browser: ",
                                                                 answer |-> in.token])),
                               !.credentials.Token = in.token]
      [] OTHER -> c

\* Mutant of Acquire: the error of serviceToken is dropped.
Acquire_IgnoresSigningError(c, p, fl, att, in) ==
    CASE p.ClientMethod \in {"methodCredential", "methodUserCredential"} ->
            LET c1 == uid([c EXCEPT !.loginEndpoint = p.StartFlowURL], fl, in)
                c2 == password([c1 EXCEPT !.credentials.UID = c1.ret], fl, in)
            IN [c2 EXCEPT !.credentials.Password = c2.ret]
      [] p.ClientMethod = "methodServiceCredential" ->
            LET c1 == uid(c, fl, in)
                c2 == serviceToken([c1 EXCEPT !.credentials.UID = c1.ret], c1.ret, in)
            IN [c2 EXCEPT !.credentials.Token = c2.ret, !.err = NoErr]
      [] p.ClientMethod = "methodBrowserToken" ->
            LET c1 == IF att = 1 THEN openBrowser(c, p.StartFlowURL, in) ELSE c
            IN IF c1.err # NoErr
               THEN c1
               ELSE [c1 EXCEPT !.interactive = TRUE,
                               !.log = Append(@, Ev("Input", [prompt |-> "Enter token from the browser: ",
                                                                 answer |-> in.token])),
                               !.credentials.Token = in.token]
      [] OTHER -> c

\* Mutant of Acquire: the browser is opened on every attempt.
Acquire_OpensEveryAttempt(c, p, fl, att, in) ==
    CASE p.ClientMethod \in {"methodCredential", "methodUserCredential"} ->
            LET c1 == uid([c EXCEPT !.loginEndpoint = p.StartFlowURL], fl, in)
                c2 == password([c1 EXCEPT !.credentials.UID = c1.ret], fl, in)
            IN [c2 EXCEPT !.credentials.Password = c2.ret]
      [] p.ClientMethod = "methodServiceCredential" ->
            LET c1 == uid(c, fl, in)
                c2 == serviceToken([c1 EXCEPT !.credentials.UID = c1.ret], c1.ret, in)
            IN IF c2.err # NoErr
               THEN c2
               ELSE [c2 EXCEPT !.credentials.Token = c2.ret]
      [] p.ClientMethod = "methodBrowserToken" ->
            LET c1 == openBrowser(c, p.StartFlowURL, in)
            IN IF c1.err # NoErr
               THEN c1
               ELSE [c1 EXCEPT !.interactive = TRUE,
                               !.log = Append(@, Ev("Input", [prompt |-> "Enter token from the browser: ",
                                                                 answer |-> in.token])),
                               !.credentials.Token = in.token]
      [] OTHER -> c

\* The switch on provider.ClientMethod of one loop iteration.
Acquire(c, p, fl, att, in) ==
    CASE p.ClientMethod \in {"methodCredential", "methodUserCredential"} ->
            LET c1 == uid([c EXCEPT !.loginEndpoint = p.StartFlowURL], fl, in)
                c2 == password([c1 EXCEPT !.credentials.UID = c1.ret], fl, in)
            IN [c2 EXCEPT !.credentials.Password = c2.ret]
      [] p.ClientMethod = "methodServiceCredential" ->
            LET c1 == uid(c, fl, in)
                c2 == serviceToken([c1 EXCEPT !.credentials.UID = c1.ret], c1.ret, in)
            IN IF c2.err # NoErr
               THEN c2
               ELSE [c2 EXCEPT !.credentials.Token = c2.ret]
      [] p.ClientMethod = "methodBrowserToken" ->
            LET c1 == IF att = 1 THEN openBrowser(c, p.StartFlowURL, in) ELSE c
            IN IF c1.err # NoErr
               THEN c1
               ELSE [c1 EXCEPT !.interactive = TRUE,
                               !.log = Append(@, Ev("Input", [prompt |-> "Enter token from the browser: ",
                                                                 answer |-> in.token])),
                               !.credentials.Token = in.token]
      [] OTHER -> c

\* f.client.Login(loginEndpoint, credentials)
Login(c, in) ==
    LET sent == Append(c.log, Ev("Login", [endpoint |-> c.loginEndpoint,
                                            credentials |-> c.credentials,
                                            ok |-> in.loginOk,
                                            acsToken |-> IF in.loginOk
                                                         THEN in.acsToken
                                                         ELSE <<>>]))
    IN IF in.loginOk
       THEN [c EXCEPT !.log = sent, !.ret = in.acsToken, !.err = NoErr]
       ELSE [c EXCEPT !.log = sent, !.ret = <<>>, !.err = LoginErr(Submissions(sent))]

\* Mutants of LoopReturns: a fourth attempt; a retry without interactivity; a
\* loop that returns after its first submission whatever the outcome.
LoopReturns_FourAttempts(err, inter, att) ==
    err = NoErr \/ ~inter \/ att > MaxAttempts

LoopReturns_RetryAlways(err, inter, att) ==
    err = NoErr \/ att >= MaxAttempts

LoopReturns_NoRetry(err, inter, att) ==
    err = NoErr \/ ~inter \/ att >= 1

\* Mutant of LoopReturns: a success does not end the loop.
LoopReturns_RetriesAfterSuccess(err, inter, att) ==
    ~inter \/ att >= MaxAttempts

\* Mutant of LoopReturns: the interactivity test is inverted.
LoopReturns_RetryNotInteractive(err, inter, att) ==
    err = NoErr \/ inter \/ att >= MaxAttempts

\* The condition under which the loop returns after a login submission.
LoopReturns(err, inter, att) ==
    err = NoErr \/ ~inter \/ att >= MaxAttempts

\* One iteration of the loop of triggerMethod.
Attempt ==
    /\ pc = "attempt"
    /\ attempt <= AttemptCap
    /\ \E in \in AttemptInputs :
          LET c0 == Ctx(interactive, log, credentials, loginEndpoint)
              c1 == Acquire(c0, provider, flags, attempt, in)
              c2 == Login(c1, in)
              c  == IF c1.err # NoErr THEN c1 ELSE c2
          IN /\ interactive' = c.interactive
             /\ log' = c.log
             /\ credentials' = c.credentials
             /\ loginEndpoint' = c.loginEndpoint
             /\ IF c1.err # NoErr
                THEN /\ pc' = "done"
                     /\ result' = Return(<<>>, c1.err)
                     /\ UNCHANGED attempt
                ELSE IF LoopReturns(c2.err, c2.interactive, attempt)
                     THEN /\ pc' = "done"
                          /\ result' = Return(c2.ret, c2.err)
                          /\ UNCHANGED attempt
                     ELSE /\ pc' = "attempt"
                          /\ attempt' = attempt + 1
                          /\ UNCHANGED result
    /\ UNCHANGED <<runs, flags, providers, provider>>

\* A further Start on the same Flow value, after the previous one returned:
\* the locals are new, the fields of the Flow are what the previous call left.
Restart ==
    /\ pc = "done"
    /\ runs < MaxRuns
    /\ pc' = "idle"
    /\ runs' = runs + 1
    /\ providers' = NoProviders
    /\ provider' = NoProvider
    /\ attempt' = 0
    /\ loginEndpoint' = <<>>
    /\ credentials' = NoCredentials
    /\ result' = NoResult
    /\ log' = <<>>
    /\ UNCHANGED <<flags, interactive>>

\* One Start on a Flow made by NewFlow.
Next ==
    \/ StartResolve
    \/ FetchProviders
    \/ SelectProvider
    \/ EnterTriggerMethod
    \/ Attempt

Spec == Init /\ [][Next]_vars

\* The collaborators answer every call: a Start that can take a step takes it.
FairSpec == Spec /\ WF_vars(Next)

\* Several Starts, one after the other, on the same Flow value.
NextReuse ==
    \/ Next
    \/ Restart

ReuseSpec == Init /\ [][NextReuse]_vars
-----------------------------------------------------------------------------
(* Reading the log *)

Has(l, op) == \E i \in 1..Len(l) : l[i].op = op
Count(l, op) == Cardinality({i \in 1..Len(l) : l[i].op = op})

IsTokenPrompt(e) == e.op = "Input" /\ e.arg.prompt = "Enter token from the browser: "
IsUsernamePrompt(e) == e.op = "Input" /\ e.arg.prompt = "Username: "
IsPasswordPrompt(e) == e.op = "Password"

\* A username, a password or a token was asked for.
Prompted(l) == Has(l, "Input") \/ Has(l, "Password")

\* The provider was chosen through the selection prompt.
ManuallySelected(l) == Has(l, "Select")

\* Start has returned because the login endpoint rejected a submission.
Rejected == pc = "done" /\ result.err.kind = "login"

-----------------------------------------------------------------------------
(* Claims *)

\* C1. Retry bound: an interactive flow (a value was prompted) whose login
\* endpoint rejects every submission makes exactly 3 login submissions and
\* returns the error of the third; no flow makes a fourth submission.
C1_RetryBound ==
    /\ Submissions(log) <= 3
    /\ (Rejected /\ Prompted(log)) =>
          (Submissions(log) = 3 /\ attempt = 3 /\ result = Return(<<>>, LoginErr(3)))

C1_Witness ==
    /\ Rejected
    /\ Prompted(log)
    /\ Submissions(log) = 3
    /\ result.err = LoginErr(3)

\* C2. Retry suppression: a flow in which no username, password or token is
\* prompted and whose login is rejected makes exactly 1 submission and returns
\* its error; without a prompt no second attempt is ever started.
C2_RetrySuppression ==
    /\ ~Prompted(log) => attempt <= 1
    /\ (Rejected /\ ~Prompted(log)) =>
          (Submissions(log) = 1 /\ result = Return(<<>>, LoginErr(1)))

C2_Witness ==
    /\ Rejected
    /\ ~Prompted(log)
    /\ flags.username # ""
    /\ flags.password # ""
    /\ provider.ClientMethod = "methodCredential"
    /\ Submissions(log) = 1

\* C3 as stated: once the provider is chosen through the selection prompt the
\* flow is interactive, and a rejected login is retried up to 3 attempts even
\* when username and password both come from flags.
C3_Original ==
    /\ (ManuallySelected(log) /\ pc \in {"selected", "attempt"}) => interactive
    /\ (ManuallySelected(log) /\ Rejected) => Submissions(log) = 3

\* C3, amended. Manual selection leaves the interactivity flag as it is: after
\* the provider is chosen through the selection prompt the flow is interactive
\* exactly when a username, a password or a token has been prompted, and a
\* rejected login of a manually selected flow without such a prompt is not
\* retried (1 submission), while one with such a prompt is (3 submissions).
C3_ManualSelectionNotInteractive ==
    ManuallySelected(log) =>
        /\ interactive <=> Prompted(log)
        /\ (Rejected /\ ~Prompted(log)) =>
              (Submissions(log) = 1 /\ result.err = LoginErr(1))
        /\ (Rejected /\ Prompted(log)) =>
              (Submissions(log) = 3 /\ result.err = LoginErr(3))

C3_Witness ==
    /\ ManuallySelected(log)
    /\ Rejected
    /\ provider.ClientMethod = "methodCredential"
    /\ flags.username # ""
    /\ flags.password # ""
    /\ ~interactive
    /\ Submissions(log) = 1

\* The reasons for which triggerMethod returns.
ReturnedBySuccess ==
    /\ result.err = NoErr
    /\ result.token # <<>>
    /\ Submissions(log) = attempt

ReturnedNotInteractive ==
    /\ result = Return(<<>>, LoginErr(Submissions(log)))
    /\ ~interactive
    /\ attempt = 1

ReturnedExhausted ==
    /\ result = Return(<<>>, LoginErr(3))
    /\ interactive
    /\ attempt = 3
    /\ Submissions(log) = 3

ReturnedBeforeSubmission ==
    /\ \/ result = Return(<<>>, SigningErr) /\ log[Len(log)].op = "Sign"
       \/ result = Return(<<>>, NewRequestErr) /\ attempt = 1
    /\ Submissions(log) = attempt - 1

\* C4. Termination: once triggerMethod has entered its loop it eventually
\* returns, and it returns for one of these reasons only: a successful login,
\* a rejected login while the flow is not interactive, a rejected login on
\* attempt 3, or a signing / URL-resolution error before the submission of
\* the attempt.
C4_Termination ==
    /\ (pc = "attempt") ~> (pc = "done")
    /\ []((pc = "done" /\ attempt >= 1) =>
            \/ ReturnedBySuccess
            \/ ReturnedNotInteractive
            \/ ReturnedExhausted
            \/ ReturnedBeforeSubmission)

C4_Witness ==
    /\ pc = "done"
    /\ provider.ClientMethod = "methodServiceCredential"
    /\ attempt = 2
    /\ ReturnedBeforeSubmission

-----------------------------------------------------------------------------
(* Browser-token flows *)

BrowserFlow == provider.ClientMethod = "methodBrowserToken"

\* The first attempt of triggerMethod has been made.
FirstAttemptMade == pc = "done" \/ (pc = "attempt" /\ attempt > 1)

\* The URL the browser is sent to and the message shows.
ResolvedURL(url) == IF url[1] = "/" THEN <<BaseURL>> \o url ELSE url

FallbackBeforePrompts(l, url) ==
    \E i \in 1..Len(l) :
        /\ l[i].op = "Errout"
        /\ l[i].arg = url
        /\ \A j \in 1..(i - 1) : l[j].op \notin {"Input", "Password", "Login"}
        /\ \E j \in (i + 1)..Len(l) : IsTokenPrompt(l[j])

\* C5 as stated: in every execution in which a BROWSER_TOKEN provider is
\* selected the fallback message with the URL is written before the first
\* token prompt.
C5_Original ==
    (BrowserFlow /\ FirstAttemptMade) =>
        FallbackBeforePrompts(log, ResolvedURL(provider.StartFlowURL))

\* C5, amended. In every execution in which a BROWSER_TOKEN provider is
\* selected and the start-flow URL is resolved without error, the fallback
\* message with the resolved URL is written before the first token prompt,
\* whether or not the opener failed; when resolving a root-relative URL fails,
\* the error is returned and nothing is opened, written, prompted or submitted.
C5_FallbackMessage ==
    (BrowserFlow /\ FirstAttemptMade) =>
        IF result.err = NewRequestErr
        THEN /\ HasPrefixSlash(provider.StartFlowURL)
             /\ \A i \in 1..Len(log) :
                   log[i].op \notin {"Open", "Errout", "Input", "Login"}
        ELSE FallbackBeforePrompts(log, ResolvedURL(provider.StartFlowURL))

C5_Witness ==
    /\ BrowserFlow
    /\ pc = "done"
    /\ provider.StartFlowURL = RelativeURL
    /\ Has(log, "LogError")
    /\ FallbackBeforePrompts(log, <<BaseURL>> \o RelativeURL)

\* C6. A failure of the opener is only logged: it is followed by the fallback
\* message, the token prompt and the login submission of the same attempt, and
\* no Start returns the opener's error.
C6_OpenErrorNotFatal ==
    /\ result.err.kind # "open"
    /\ \A i \in 1..Len(log) :
          log[i].op = "LogError" =>
             /\ log[i].arg = OpenErr
             /\ i > 1 /\ log[i - 1].op = "Open"
             /\ Len(log) >= i + 3
             /\ log[i + 1].op = "Errout"
             /\ IsTokenPrompt(log[i + 2])
             /\ log[i + 3].op = "Login"

C6_Witness ==
    /\ BrowserFlow
    /\ Has(log, "LogError")
    /\ pc = "done"
    /\ result.err = NoErr
    /\ result.token # <<>>

\* C7. In a BROWSER_TOKEN flow the browser is opened and the fallback message
\* written at most once, before any prompt or submission (so on attempt 1
\* only); every submission is directly preceded by the one token prompt of
\* its attempt, and the flow is interactive from the first attempt on.
C7_BrowserOnce ==
    BrowserFlow =>
        /\ Count(log, "Open") <= 1
        /\ Count(log, "Errout") <= 1
        /\ \A i \in 1..Len(log) :
              log[i].op \in {"Open", "Errout"} =>
                 \A j \in 1..(i - 1) : log[j].op \notin {"Input", "Password", "Login"}
        /\ \A i \in 1..Len(log) :
              log[i].op = "Login" => (i > 1 /\ IsTokenPrompt(log[i - 1]))
        /\ Count(log, "Input") = Submissions(log)
        /\ pc = "attempt" => Submissions(log) = attempt - 1
        /\ Submissions(log) >= 1 => interactive

C7_Witness ==
    /\ BrowserFlow
    /\ pc = "done"
    /\ attempt = 3
    /\ Submissions(log) = 3
    /\ Count(log, "Input") = 3
    /\ Count(log, "Open") = 1

-----------------------------------------------------------------------------
(* Provider selection *)

\* selectProvider has returned and triggerMethod has not been entered.
AfterSelect ==
    \/ pc = "selected"
    \/ pc = "done" /\ attempt = 0 /\ result.err \notin {ResolveErr, ProvidersErr}

\* The providers of a catalog the flags are compatible with.
Compatible(fl, ps) == {id \in DOMAIN ps : id \in fl.supports}

NoInteraction(l) ==
    \A i \in 1..Len(l) :
        l[i].op \notin {"Select", "Input", "Password", "Open", "Errout", "Sign", "Login"}

\* C8. With a provider ID in the flags, selectProvider returns the catalog
\* entry with that ID, compatible or not, without filtering or prompting; when
\* the catalog has no such key it fails with the error naming the ID, and
\* nothing is submitted.
C8_ExplicitSelection ==
    (flags.providerID # "" /\ AfterSelect) =>
        /\ \A i \in 1..Len(log) : log[i].op \in {"Resolve", "Providers"}
        /\ IF flags.providerID \in DOMAIN providers
           THEN /\ pc = "selected"
                /\ provider = providers[flags.providerID]
           ELSE /\ pc = "done"
                /\ result = Return(<<>>, UnknownProviderErr(flags.providerID))
                /\ result.err.id = flags.providerID

C8_Witness ==
    /\ pc = "selected"
    /\ flags.providerID # ""
    /\ provider.ID = flags.providerID
    /\ provider.ID \notin flags.supports
    /\ Cardinality(DOMAIN providers) > 1

\* C9. Without a provider ID in the flags and with no compatible provider in
\* the catalog (the empty catalog included), selection fails with the
\* no-provider error, and nothing is prompted, opened or submitted.
C9_NoCandidates ==
    (flags.providerID = "" /\ AfterSelect /\ Compatible(flags, providers) = {}) =>
        /\ pc = "done"
        /\ result = Return(<<>>, NoProviderErr)
        /\ NoInteraction(log)
        /\ Count(log, "Info") = Cardinality(DOMAIN providers)

C9_Witness ==
    /\ flags.providerID = ""
    /\ AfterSelect
    /\ Cardinality(DOMAIN providers) = 2
    /\ Compatible(flags, providers) = {}
    /\ result.err = NoProviderErr

\* C10. Without a provider ID in the flags and with exactly one compatible
\* provider, selectProvider returns that provider and the selection prompt is
\* not invoked, whatever the size of the catalog and the place of the
\* provider in it.
C10_ImplicitSelection ==
    (flags.providerID = "" /\ AfterSelect
        /\ Cardinality(Compatible(flags, providers)) = 1) =>
        /\ pc = "selected"
        /\ provider.ID \in Compatible(flags, providers)
        /\ provider = providers[provider.ID]
        /\ NoInteraction(log)

C10_Witness ==
    /\ flags.providerID = ""
    /\ pc = "selected"
    /\ Cardinality(DOMAIN providers) = 3
    /\ Compatible(flags, providers) = {"p3"}
    /\ provider.ID = "p3"
    /\ ~Has(log, "Select")

\* The place of a provider in the iteration of the catalog.
PlaceInCatalog(ps, id) == CHOOSE i \in 1..Len(Slice(ps)) : Slice(ps)[i].ID = id

\* C11. Without a provider ID in the flags and with two or more compatible
\* providers, the selection prompt is invoked exactly once, with exactly the
\* compatible providers in the order of the catalog's iteration, and the
\* provider returned is the candidate at the index the prompt answered.
C11_ManualSelection ==
    (flags.providerID = "" /\ AfterSelect
        /\ Cardinality(Compatible(flags, providers)) >= 2) =>
        /\ Count(log, "Select") = 1
        /\ \A i \in 1..Len(log) :
              log[i].op = "Select" =>
                 /\ Len(log[i].arg) = Cardinality(Compatible(flags, providers))
                 /\ {log[i].arg[j] : j \in 1..Len(log[i].arg)} = Compatible(flags, providers)
                 /\ \A a, b \in 1..Len(log[i].arg) :
                       a < b => PlaceInCatalog(providers, log[i].arg[a])
                                   < PlaceInCatalog(providers, log[i].arg[b])
                 /\ \A j \in 1..(i - 1) : log[j].op \in {"Resolve", "Providers", "Info"}
                 /\ IF pc = "selected"
                    THEN /\ Len(log) = i + 1
                         /\ log[i + 1].op = "Selected"
                         /\ log[i + 1].arg < Len(log[i].arg)
                         /\ provider = providers[log[i].arg[log[i + 1].arg + 1]]
                    ELSE /\ Len(log) = i
                         /\ result = Return(<<>>, SelectErr)

C11_Witness ==
    /\ flags.providerID = ""
    /\ pc = "selected"
    /\ Cardinality(DOMAIN providers) = 3
    /\ Compatible(flags, providers) = {"p1", "p3"}
    /\ Len(log) = 5
    /\ log[3].op = "Info"
    /\ log[3].arg = "p2"
    /\ log[4].op = "Select"
    /\ log[4].arg = <<"p1", "p3">>
    /\ log[5].op = "Selected"
    /\ log[5].arg = 1
    /\ provider.ID = "p3"

-----------------------------------------------------------------------------
(* Start *)

CredentialOps == {"Input", "Password", "Open", "Errout", "LogError", "Sign", "Login"}

\* C12. Flag resolution, the catalog fetch and provider selection are each
\* made at most once per Start, in that order; when one of them fails (the
\* selection prompt included) Start returns that error at once, and no
\* credential prompt, browser open or login submission is made.
C12_EntryFailuresFatal ==
    /\ Count(log, "Resolve") <= 1
    /\ Count(log, "Providers") <= 1
    /\ Count(log, "Select") <= 1
    /\ \A i \in 1..Len(log) :
          /\ log[i].op = "Resolve" => i = 1
          /\ log[i].op = "Providers" => (i = 2 /\ log[1].op = "Resolve")
          /\ log[i].op \notin {"Resolve", "Providers"} =>
                (i > 2 /\ log[2].op = "Providers")
          /\ log[i].op \in CredentialOps =>
                \A j \in (i + 1)..Len(log) : log[j].op \in CredentialOps
          /\ (log[i].op = "Resolve" /\ ~log[i].arg) =>
                (i = Len(log) /\ pc = "done" /\ result = Return(<<>>, ResolveErr))
          /\ (log[i].op = "Providers" /\ ~log[i].arg) =>
                (i = Len(log) /\ pc = "done" /\ result = Return(<<>>, ProvidersErr))
          /\ (log[i].op = "Select" /\ (i = Len(log) \/ log[i + 1].op # "Selected")) =>
                (i = Len(log) /\ pc = "done" /\ result = Return(<<>>, SelectErr))
    /\ result.err.kind \in {"flags", "providers", "select",
                            "unknown login provider ID",
                            "couldn't determine a login provider"} =>
          /\ pc = "done"
          /\ attempt = 0
          /\ result.token = <<>>
          /\ \A i \in 1..Len(log) : log[i].op \notin CredentialOps
    /\ (pc = "done" /\ attempt = 0) =>
          result.err.kind \in {"flags", "providers", "select",
                               "unknown login provider ID",
                               "couldn't determine a login provider"}

C12_Witness ==
    /\ pc = "done"
    /\ Len(log) = 3
    /\ log[1].op = "Resolve"
    /\ log[2].op = "Providers"
    /\ log[3].op = "Select"
    /\ result = Return(<<>>, SelectErr)

-----------------------------------------------------------------------------
(* The attempts of triggerMethod *)

\* C13. In a SERVICE_CREDENTIAL flow a failure to issue the service token, on
\* any attempt, ends triggerMethod with the signing error: no submission is
\* made in that attempt and no further attempt is started, also when the UID
\* was prompted and fewer than 3 attempts were made.
C13_SigningErrorFatal ==
    /\ \A i \in 1..Len(log) :
          (log[i].op = "Sign" /\ ~log[i].arg.ok) =>
             /\ provider.ClientMethod = "methodServiceCredential"
             /\ i = Len(log)
             /\ pc = "done"
             /\ result = Return(<<>>, SigningErr)
             /\ Submissions(log) = attempt - 1
    /\ result.err = SigningErr =>
          (log # <<>> /\ log[Len(log)].op = "Sign" /\ ~log[Len(log)].arg.ok)

C13_Witness ==
    /\ provider.ClientMethod = "methodServiceCredential"
    /\ pc = "done"
    /\ interactive
    /\ attempt = 2
    /\ Submissions(log) = 1
    /\ IsUsernamePrompt(log[Len(log) - 1])
    /\ log[Len(log)].op = "Sign"
    /\ result = Return(<<>>, SigningErr)

\* The last login submission before entry i of a log (0 when there is none).
PrevLogin(l, i) ==
    LET before == {j \in 1..(i - 1) : l[j].op = "Login"}
    IN IF before = {} THEN 0 ELSE CHOOSE j \in before : \A k \in before : k <= j

\* The entries of the attempt that ends with the submission at entry i.
AttemptEntries(l, i) == (PrevLogin(l, i) + 1)..(i - 1)

UsesUID ==
    provider.ClientMethod \in {"methodCredential", "methodUserCredential",
                               "methodServiceCredential"}

UsesPassword ==
    provider.ClientMethod \in {"methodCredential", "methodUserCredential"}

\* C14. uid() and password() return the flag's value, without a prompt and
\* without touching the interactivity flag, when the flag is not empty;
\* otherwise they mark the flow interactive and return what the prompt
\* answered. The two decisions are independent.
C14_CredentialAccessors ==
    /\ interactive <=> Prompted(log)
    /\ \A i \in 1..Len(log) :
          (log[i].op = "Login" /\ UsesUID) =>
             LET asked == {j \in AttemptEntries(log, i) : IsUsernamePrompt(log[j])}
             IN IF flags.username # ""
                THEN /\ asked = {}
                     /\ log[i].arg.credentials.UID = flags.username
                ELSE /\ Cardinality(asked) = 1
                     /\ \A j \in asked : log[i].arg.credentials.UID = log[j].arg.answer
                     /\ interactive
    /\ \A i \in 1..Len(log) :
          (log[i].op = "Login" /\ UsesPassword) =>
             LET asked == {j \in AttemptEntries(log, i) : IsPasswordPrompt(log[j])}
             IN IF flags.password # ""
                THEN /\ asked = {}
                     /\ log[i].arg.credentials.Password = flags.password
                ELSE /\ Cardinality(asked) = 1
                     /\ \A j \in asked :
                           log[i].arg.credentials.Password = log[j].arg.answer
                     /\ interactive

C14_Witness ==
    /\ provider.ClientMethod = "methodUserCredential"
    /\ flags.username = "alice"
    /\ flags.password = ""
    /\ interactive
    /\ pc = "done"
    /\ ~Has(log, "Input")
    /\ Has(log, "Password")
    /\ log[Len(log)].op = "Login"
    /\ log[Len(log)].arg.credentials.UID = "alice"
    /\ log[Len(log)].arg.credentials.Password = "hunter2"

\* The login endpoint used when triggerMethod names none.
DefaultEndpoint == <<>>

\* C15. On every attempt a CREDENTIAL or USER_CREDENTIAL provider submits
\* {UID, Password} to its StartFlowURL, a SERVICE_CREDENTIAL provider submits
\* {UID, Token}, the token being the one issued for that UID, to the default
\* endpoint, and a BROWSER_TOKEN provider submits the pasted token to the
\* default endpoint. With provider p1 of method CREDENTIAL and the flags
\* username = alice, password = secret, exactly one submission is made:
\* {alice, secret} to p1's StartFlowURL.
C15_MethodDispatch ==
    /\ \A i \in 1..Len(log) :
          log[i].op = "Login" =>
             LET sent == log[i].arg IN
             CASE UsesPassword ->
                    /\ sent.endpoint = provider.StartFlowURL
                    /\ sent.credentials.UID # ""
                    /\ sent.credentials.Password # ""
                    /\ sent.credentials.Token = <<>>
               [] provider.ClientMethod = "methodServiceCredential" ->
                    /\ sent.endpoint = DefaultEndpoint
                    /\ sent.endpoint # provider.StartFlowURL
                    /\ sent.credentials.UID # ""
                    /\ sent.credentials.Password = ""
                    /\ sent.credentials.Token = <<"jwt", sent.credentials.UID>>
                    /\ log[i - 1].op = "Sign"
                    /\ log[i - 1].arg = [uid |-> sent.credentials.UID, ok |-> TRUE]
               [] provider.ClientMethod = "methodBrowserToken" ->
                    /\ sent.endpoint = DefaultEndpoint
                    /\ sent.credentials.UID = ""
                    /\ sent.credentials.Password = ""
                    /\ IsTokenPrompt(log[i - 1])
                    /\ sent.credentials.Token = log[i - 1].arg.answer
               [] OTHER -> TRUE
    /\ (pc = "done" /\ provider.ID = "p1" /\ provider.ClientMethod = "methodCredential"
          /\ flags.username = "alice" /\ flags.password = "secret") =>
          /\ Submissions(log) = 1
          /\ log[Len(log)].op = "Login"
          /\ log[Len(log)].arg.endpoint = provider.StartFlowURL
          /\ log[Len(log)].arg.credentials =
                [UID |-> "alice", Password |-> "secret", Token |-> <<>>]

C15_Witness ==
    /\ pc = "done"
    /\ provider.ID = "p1"
    /\ provider.ClientMethod = "methodCredential"
    /\ flags.providerID = ""
    /\ flags.username = "alice"
    /\ flags.password = "secret"
    /\ Submissions(log) = 1
    /\ log[Len(log)].arg.endpoint = AbsoluteURL
    /\ result.err = NoErr

\* C16. When a login submission succeeds, on attempt 1, 2 or 3, triggerMethod
\* returns the access token the endpoint gave, unchanged and with no error,
\* and nothing is prompted, opened or submitted after that submission.
C16_SuccessEndsFlow ==
    /\ \A i \in 1..Len(log) :
          (log[i].op = "Login" /\ log[i].arg.ok) =>
             /\ i = Len(log)
             /\ pc = "done"
             /\ result = Return(log[i].arg.acsToken, NoErr)
             /\ result.token \in {<<"acs1">>, <<"acs2">>}
             /\ Submissions(log) = attempt
             /\ attempt \in 1..3
    /\ (pc = "done" /\ result.err = NoErr) =>
          (log[Len(log)].op = "Login" /\ log[Len(log)].arg.ok)

C16_Witness ==
    /\ pc = "done"
    /\ attempt = 3
    /\ Submissions(log) = 3
    /\ log[Len(log)].op = "Login"
    /\ log[Len(log)].arg.ok
    /\ result = Return(<<"acs2">>, NoErr)

\* What an entry of the log acquires: the prompt's text, or the operation.
Kind(e) == IF e.op \in {"Input", "Password"} THEN e.arg.prompt ELSE e.op

AcquisitionOps == {"Input", "Password", "Sign"}

\* The acquisitions of one attempt, in order, for the provider and the flags.
ExpectedAcquisitions ==
    (IF flags.username = "" THEN <<"Username: ">> ELSE <<>>)
    \o (IF UsesPassword /\ flags.password = "" THEN <<"Password: ">> ELSE <<>>)
    \o (IF provider.ClientMethod = "methodServiceCredential" THEN <<"Sign">> ELSE <<>>)

\* C17. Every attempt acquires its credentials from scratch and in the same
\* order: the UID before the password (credential methods) or before the
\* service token is issued (service method); what attempt 1 prompted is
\* prompted on each later attempt, flag values are submitted the same on all
\* attempts, and each attempt issues its own service token.
C17_Reacquisition ==
    UsesUID =>
        \A i \in 1..Len(log) :
            log[i].op = "Login" =>
               LET n == Len(ExpectedAcquisitions) IN
               /\ Cardinality({j \in AttemptEntries(log, i) :
                                  log[j].op \in AcquisitionOps}) = n
               /\ i - n > PrevLogin(log, i)
               /\ \A k \in 1..n : Kind(log[i - n - 1 + k]) = ExpectedAcquisitions[k]
               /\ flags.username # "" => log[i].arg.credentials.UID = flags.username
               /\ (UsesPassword /\ flags.password # "") =>
                     log[i].arg.credentials.Password = flags.password
               /\ provider.ClientMethod = "methodServiceCredential" =>
                     /\ log[i - 1].arg.uid = log[i].arg.credentials.UID
                     /\ log[i].arg.credentials.Token = <<"jwt", log[i - 1].arg.uid>>

C17_Witness ==
    /\ provider.ClientMethod = "methodServiceCredential"
    /\ flags.username = ""
    /\ pc = "done"
    /\ attempt = 3
    /\ Count(log, "Input") = 3
    /\ Count(log, "Sign") = 3
    /\ Submissions(log) = 3
    /\ log[Len(log)].arg.credentials.UID = "carol"
    /\ log[Len(log) - 3].arg.credentials.UID = "bob"

\* C18. No state persists beyond one execution: the interactivity flag is
\* false at the start of every Start call, also a second one on the same Flow
\* value, so whether a rejected submission is retried depends only on the
\* prompts of the execution it belongs to (the log holds that execution only).
C18_Original ==
    /\ pc = "idle" => ~interactive
    /\ (Rejected /\ ~Prompted(log)) => Submissions(log) = 1

\* C19. The attempt counter of the loop is between 1 and 3, at most as many
\* submissions were made as the counter says, an attempt k > 1 starts only
\* after submission k-1 failed with the interactivity flag set; so there are
\* never more than 3 submissions and none after a successful one.
C19_LoopInvariant ==
    /\ pc \in {"attempt", "done"} /\ provider # NoProvider => attempt \in 1..MaxAttempts
    /\ Submissions(log) <= attempt
    /\ Submissions(log) <= 3
    /\ pc = "attempt" =>
          /\ Submissions(log) = attempt - 1
          /\ attempt > 1 => interactive
    /\ \A i \in 1..Len(log) :
          log[i].op = "Login" =>
             /\ log[i].arg.ok => \A j \in (i + 1)..Len(log) : log[j].op # "Login"
             /\ (pc = "attempt" \/ i < Len(log)) =>
                   /\ ~log[i].arg.ok
                   /\ \E j \in 1..i : log[j].op \in {"Input", "Password"}

C19_Witness ==
    /\ pc = "attempt"
    /\ attempt = 3
    /\ Submissions(log) = 2
    /\ interactive
    /\ \A i \in 1..Len(log) : log[i].op = "Login" => ~log[i].arg.ok

\* C20. Every login submission comes after a credential acquisition of one of
\* the four client methods in the same attempt, and a provider with any other
\* ClientMethod never leads to a submission of empty Credentials.
C20_Original ==
    \A i \in 1..Len(log) :
        log[i].op = "Login" =>
           /\ provider.ClientMethod \in {"methodCredential", "methodUserCredential",
                                         "methodServiceCredential", "methodBrowserToken"}
           /\ log[i].arg.credentials # NoCredentials
====
